---- MODULE Spec2Model ----
(***************************************************************************)
(* Model of the Nyx sidecar server supervisor (client/src-tauri/src).      *)
(*                                                                         *)
(*   lib.rs   check_server_health, start_server, start_embedded_server,    *)
(*            wait_for_server_ready and the startup task spawned in run()  *)
(*                                                                         *)
(*   main.rs  the start_server command that runs `pnpm start`              *)
(*                                                                         *)
(* Four specifications are defined over the same variables:                *)
(*   Spec      the startup task of run() running concurrently with the     *)
(*             start_server / start_embedded_server commands invoked by    *)
(*             the frontend;                                               *)
(*   SpecWait  the health probing: the first probe of the startup task and *)
(*             the wait_for_server_ready command, with the elapsed         *)
(*             wall-clock time of its probes and sleeps;                   *)
(*   SpecTerm  the startup task followed by wait_for_server_ready, with    *)
(*             the fairness of the async runtime;                          *)
(*   SpecPm    the start_server command of main.rs.                        *)
(***************************************************************************)
EXTENDS Integers, Sequences, FiniteSets, TLC

VARIABLES
    exists,          \* exists[i]: PathBuf::from(server_paths[i]).exists()
    resourceExists,  \* resource_dir()/nyx-server.exe exists
    pc,              \* pc[p]: the statement task p is about to execute
    stack,           \* stack[p]: the call sites task p has to return to
    idx,             \* idx[p]: position of the `for path in server_paths` loop
    ret,             \* ret[p]: the Result returned by the call that just ended
    trace,           \* trace[p]: probes, spawns, sleeps of p's current invocation
    outcome,         \* outcome[p]: the arm in which p's invocation ended
    reported,        \* reported[p]: the message logged / returned at the end
    children,        \* every OS process spawned so far
    calls,           \* calls[p]: number of commands p has invoked
    wi,              \* wi[p]: `i` of the `for i in 0..30` loop
    probes,          \* probes[p]: health probes issued by wait_for_server_ready
    unhealthy,       \* unhealthy[p]: probes that did not return Ok(true)
    sleeps,          \* sleeps[p]: one-second sleeps taken by wait_for_server_ready
    elapsed,         \* elapsed[p]: seconds spent in wait_for_server_ready
    net,             \* net[p]: the network outcome met by p's last probe
    health           \* health[p]: what check_server_health returned to p last

vars == <<exists, resourceExists, pc, stack, idx, ret, trace, outcome, reported,
          children, calls, wi, probes, unhealthy, sleeps, elapsed, net, health>>

waitVars == <<wi, probes, unhealthy, sleeps, elapsed>>

(***************************************************************************)
(* Bounds                                                                  *)
(***************************************************************************)
\* commands the frontend invokes while the application runs
MaxCalls == 1

\* start_server commands of main.rs the frontend invokes
MaxPmCalls == 2

(***************************************************************************)
(* Tasks: the task spawned by run()'s setup closure, and the frontend,     *)
(* whose command invocations run on the async runtime beside it.           *)
(***************************************************************************)
SetupTask == "setup"

Frontend == "ui"

Procs == {SetupTask, Frontend}

(***************************************************************************)
(* Strings.  A path is kept as its sequence of tokens so that ends_with    *)
(* and Display are computed, not assumed.                                  *)
(***************************************************************************)
RECURSIVE PathStr(_)
PathStr(toks) ==
    IF toks = <<>> THEN "" ELSE Head(toks) \o PathStr(Tail(toks))

ends_with(toks, suffix) ==
    /\ Len(toks) > 0
    /\ toks[Len(toks)] = suffix

server_paths ==
    << <<".", "/", "server", "/", "start", ".js">>,
       <<"..", "/", "server", "/", "start", ".js">>,
       <<".", "/", "server", "/", "dist", "/", "nyx-server", ".exe">>,
       <<"..", "/", "server", "/", "dist", "/", "nyx-server", ".exe">>,
       <<"nyx-server", ".exe">> >>

NumPaths == Len(server_paths)

\* resource_dir().join("nyx-server.exe")
resource_path == <<"$RESOURCE", "/", "nyx-server", ".exe">>

\* io::Error values a spawn or a try_wait can produce
IoErrors == {"EACCES"}

\* ExitStatus values of a child that has terminated
ExitStatuses == {"exit status: 1"}

Running == "running"

(***************************************************************************)
(* Result<T, String>                                                       *)
(***************************************************************************)
Ok(v) == [ok |-> TRUE, val |-> v]

Err(m) == [ok |-> FALSE, val |-> m]

NoRet == [ok |-> TRUE, val |-> <<"-">>]

\* health[p] before p's first probe
NoHealth == [ok |-> TRUE, val |-> FALSE]

(***************************************************************************)
(* check_server_health: one GET with a 5 second timeout.                   *)
(***************************************************************************)
health_timeout_secs == 5

\* what the request can meet: a transport error, or a response status
NetOutcomes == {"refused", "timeout", "200", "204", "301", "404", "500"}

TransportErrors == {"refused", "timeout"}

\* StatusCode::is_success: 200 <= code < 300
is_success(status) == status \in {"200", "204"}

\* seconds a request that meets n can take: a timeout takes the whole
\* timeout, any other outcome arrives within it
ProbeSeconds(n) ==
    IF n = "timeout"
    THEN {health_timeout_secs}
    ELSE 0..health_timeout_secs

\* variant: the transport error is propagated instead of mapped to Ok(false)
check_server_health_propagates(n) ==
    IF n \in TransportErrors
    THEN Err(<<"error sending request">>)
    ELSE Ok(is_success(n))

check_server_health(n) ==
    IF n \in TransportErrors
    THEN Ok(FALSE)
    ELSE Ok(is_success(n))

(***************************************************************************)
(* std::process::Command and the processes it has spawned                  *)
(***************************************************************************)
Command(program, args, cwd, stdio) ==
    [program |-> program, args |-> args, cwd |-> cwd, stdio |-> stdio]

\* the Command start_server builds for server_paths[i]
server_command(i) ==
    IF ends_with(server_paths[i], ".js")
    THEN Command("node", <<PathStr(server_paths[i])>>, "./server", "null")
    ELSE Command(PathStr(server_paths[i]), <<>>, ".", "null")

\* the Command start_embedded_server builds for the bundled executable
embedded_command == Command(PathStr(resource_path), <<>>, ".", "piped")

\* a process spawned by task p during its invocation number c
Child(cmd, p, c) == [cmd |-> cmd, by |-> p, call |-> c, st |-> Running]

\* the child whose handle `child` task p holds in start_embedded_server
ChildOf(p) ==
    CHOOSE c \in children :
        /\ c.by = p
        /\ c.call = calls[p]
        /\ c.cmd = embedded_command

(***************************************************************************)
(* What a task did during its current invocation, in order.                *)
(***************************************************************************)
Ev(op, path, res, detail) ==
    [op |-> op, path |-> path, res |-> res, detail |-> detail]

Log(p, e) == [trace EXCEPT ![p] = Append(@, e)]

(***************************************************************************)
(* Initial state: the application has just been built by run(); the files  *)
(* on disk are whatever the installation left there.                       *)
(***************************************************************************)
Init ==
    /\ exists \in [1..NumPaths -> BOOLEAN]
    /\ resourceExists \in BOOLEAN
    /\ pc = [p \in Procs |-> IF p = SetupTask THEN "run_sleep" ELSE "idle"]
    /\ stack = [p \in Procs |-> <<>>]
    /\ idx = [p \in Procs |-> 1]
    /\ ret = [p \in Procs |-> NoRet]
    /\ trace = [p \in Procs |-> <<>>]
    /\ outcome = [p \in Procs |-> "none"]
    /\ reported = [p \in Procs |-> <<>>]
    /\ children = {}
    /\ calls = [p \in Procs |-> 0]
    /\ wi = [p \in Procs |-> 0]
    /\ probes = [p \in Procs |-> 0]
    /\ unhealthy = [p \in Procs |-> 0]
    /\ sleeps = [p \in Procs |-> 0]
    /\ elapsed = [p \in Procs |-> 0]
    /\ net = [p \in Procs |-> "none"]
    /\ health = [p \in Procs |-> NoHealth]

\* the invocation of task p ends in arm `o`, logging or returning `msg`
Finish(p, o, msg) ==
    /\ pc' = [pc EXCEPT ![p] = IF p = SetupTask THEN "done" ELSE "idle"]
    /\ stack' = [stack EXCEPT ![p] = <<>>]
    /\ outcome' = [outcome EXCEPT ![p] = o]
    /\ reported' = [reported EXCEPT ![p] = msg]

(***************************************************************************)
(* run(): the task spawned by the setup closure                            *)
(***************************************************************************)
\* tokio::time::sleep(2 s) before the first probe
RunSleep(p) ==
    /\ p = SetupTask
    /\ pc[p] = "run_sleep"
    /\ pc' = [pc EXCEPT ![p] = "run_probe"]
    /\ trace' = Log(p, Ev("sleep", "", "2", ""))
    /\ UNCHANGED <<exists, resourceExists, stack, idx, ret, outcome, reported,
                   children, calls, net, health>>
    /\ UNCHANGED waitVars

\* variant: the Ok(true) arm launches like the Ok(false) arm
RunProbe_launchesAnyway(p) ==
    /\ p = SetupTask
    /\ pc[p] = "run_probe"
    /\ \E n \in NetOutcomes :
        LET r == check_server_health(n) IN
        /\ health' = [health EXCEPT ![p] = r]
        /\ trace' = Log(p, Ev("probe", "", IF r.ok /\ r.val THEN "healthy" ELSE "unhealthy", ""))
        /\ IF r.ok
           THEN /\ pc' = [pc EXCEPT ![p] = "emb_entry"]
                /\ stack' = [stack EXCEPT ![p] = <<"run_embedded">>]
                /\ UNCHANGED <<outcome, reported>>
           ELSE Finish(p, "health_error", <<"Error checking server health: ">> \o r.val)
    /\ UNCHANGED <<exists, resourceExists, idx, ret, children, calls, net>>
    /\ UNCHANGED waitVars

\* match check_server_health().await
RunProbe(p) ==
    /\ p = SetupTask
    /\ pc[p] = "run_probe"
    /\ \E n \in NetOutcomes :
        LET r == check_server_health(n) IN
        /\ health' = [health EXCEPT ![p] = r]
        /\ trace' = Log(p, Ev("probe", "", IF r.ok /\ r.val THEN "healthy" ELSE "unhealthy", ""))
        /\ IF r.ok /\ r.val
           THEN Finish(p, "already_running", <<"Server is already running">>)
           ELSE IF r.ok
           THEN /\ pc' = [pc EXCEPT ![p] = "emb_entry"]
                /\ stack' = [stack EXCEPT ![p] = <<"run_embedded">>]
                /\ UNCHANGED <<outcome, reported>>
           ELSE Finish(p, "health_error", <<"Error checking server health: ">> \o r.val)
    /\ UNCHANGED <<exists, resourceExists, idx, ret, children, calls, net>>
    /\ UNCHANGED waitVars

\* variant: the Err arm gives up without the fallback to start_server
RunAfterEmbedded_noFallback(p) ==
    /\ pc[p] = "return"
    /\ stack[p] = <<"run_embedded">>
    /\ IF ret[p].ok
       THEN Finish(p, "embedded_started", <<"Embedded server started successfully">>)
       ELSE Finish(p, "all_failed", <<"All server start methods failed: ">> \o ret[p].val)
    /\ UNCHANGED <<exists, resourceExists, idx, ret, trace, children, calls, net, health>>
    /\ UNCHANGED waitVars

\* variant: the fallback pass is made whatever start_embedded_server returned
RunAfterEmbedded_alwaysFallsBack(p) ==
    /\ pc[p] = "return"
    /\ stack[p] = <<"run_embedded">>
    /\ pc' = [pc EXCEPT ![p] = "ss_loop"]
    /\ stack' = [stack EXCEPT ![p] = <<"run_fallback">>]
    /\ idx' = [idx EXCEPT ![p] = 1]
    /\ trace' = Log(p, Ev("start_server", "", "fallback", ""))
    /\ UNCHANGED <<exists, resourceExists, ret, outcome, reported, children,
                   calls, net, health>>
    /\ UNCHANGED waitVars

\* match start_embedded_server(..).await: Ok ends the task, Err falls back
RunAfterEmbedded(p) ==
    /\ pc[p] = "return"
    /\ stack[p] = <<"run_embedded">>
    /\ IF ret[p].ok
       THEN /\ Finish(p, "embedded_started", <<"Embedded server started successfully">>)
            /\ UNCHANGED <<idx, trace>>
       ELSE /\ pc' = [pc EXCEPT ![p] = "ss_loop"]
            /\ stack' = [stack EXCEPT ![p] = <<"run_fallback">>]
            /\ idx' = [idx EXCEPT ![p] = 1]
            /\ trace' = Log(p, Ev("start_server", "", "fallback", ""))
            /\ UNCHANGED <<outcome, reported>>
    /\ UNCHANGED <<exists, resourceExists, ret, children, calls, net, health>>
    /\ UNCHANGED waitVars

\* variant: when every start method has failed the task starts over
RunAfterFallback_startsOver(p) ==
    /\ pc[p] = "return"
    /\ stack[p] = <<"run_fallback">>
    /\ IF ret[p].ok
       THEN /\ Finish(p, "fallback_started", <<"Fallback server start: ">> \o ret[p].val)
            /\ UNCHANGED <<idx, ret, trace>>
       ELSE /\ pc' = [pc EXCEPT ![p] = "run_sleep"]
            /\ stack' = [stack EXCEPT ![p] = <<>>]
            /\ idx' = [idx EXCEPT ![p] = 1]
            /\ ret' = [ret EXCEPT ![p] = NoRet]
            /\ trace' = [trace EXCEPT ![p] = <<>>]
            /\ UNCHANGED <<outcome, reported>>
    /\ UNCHANGED <<exists, resourceExists, children, calls, net, health>>
    /\ UNCHANGED waitVars

\* match start_server().await of the fallback
RunAfterFallback(p) ==
    /\ pc[p] = "return"
    /\ stack[p] = <<"run_fallback">>
    /\ IF ret[p].ok
       THEN Finish(p, "fallback_started", <<"Fallback server start: ">> \o ret[p].val)
       ELSE Finish(p, "all_failed", <<"All server start methods failed: ">> \o ret[p].val)
    /\ UNCHANGED <<exists, resourceExists, idx, ret, trace, children, calls, net, health>>
    /\ UNCHANGED waitVars

(***************************************************************************)
(* start_embedded_server                                                   *)
(***************************************************************************)
\* app_handle.path().resource_dir() fails: the `?` returns the mapped error
EmbResourceDirErr(p) ==
    /\ pc[p] = "emb_entry"
    /\ ret' = [ret EXCEPT ![p] = Err(<<"Failed to get resource directory: ", "unknown path">>)]
    /\ pc' = [pc EXCEPT ![p] = "return"]
    /\ trace' = Log(p, Ev("resource_dir", "", "error", "unknown path"))
    /\ UNCHANGED <<exists, resourceExists, stack, idx, outcome, reported,
                   children, calls, net, health>>
    /\ UNCHANGED waitVars

\* !resource_path.exists(): return start_server().await
\* (a tail call: the Result of start_server is the Result of this call)
EmbAbsent(p) ==
    /\ pc[p] = "emb_entry"
    /\ ~resourceExists
    /\ pc' = [pc EXCEPT ![p] = "ss_loop"]
    /\ idx' = [idx EXCEPT ![p] = 1]
    /\ trace' = Log(p, Ev("start_server", PathStr(resource_path), "resource_absent", ""))
    /\ UNCHANGED <<exists, resourceExists, stack, ret, outcome, reported,
                   children, calls, net, health>>
    /\ UNCHANGED waitVars

\* Command::new(&resource_path)...spawn() is Ok(child)
EmbSpawnOk(p) ==
    /\ pc[p] = "emb_entry"
    /\ resourceExists
    /\ children' = children \cup {Child(embedded_command, p, calls[p])}
    /\ pc' = [pc EXCEPT ![p] = "emb_grace"]
    /\ trace' = Log(p, Ev("spawn", PathStr(resource_path), "ok", ""))
    /\ UNCHANGED <<exists, resourceExists, stack, idx, ret, outcome, reported,
                   calls, net, health>>
    /\ UNCHANGED waitVars

\* Command::new(&resource_path)...spawn() is Err(e)
EmbSpawnErr(p) ==
    /\ pc[p] = "emb_entry"
    /\ resourceExists
    /\ \E e \in IoErrors :
        /\ ret' = [ret EXCEPT ![p] = Err(<<"Failed to start server: ", e>>)]
        /\ trace' = Log(p, Ev("spawn", PathStr(resource_path), "error", e))
    /\ pc' = [pc EXCEPT ![p] = "return"]
    /\ UNCHANGED <<exists, resourceExists, stack, idx, outcome, reported,
                   children, calls, net, health>>
    /\ UNCHANGED waitVars

\* tokio::time::sleep(3 s): the grace period
EmbGrace(p) ==
    /\ pc[p] = "emb_grace"
    /\ pc' = [pc EXCEPT ![p] = "emb_try_wait"]
    /\ trace' = Log(p, Ev("sleep", "", "3", ""))
    /\ UNCHANGED <<exists, resourceExists, stack, idx, ret, outcome, reported,
                   children, calls, net, health>>
    /\ UNCHANGED waitVars

\* match child.try_wait(): Ok(Some(status)) | Ok(None)
EmbTryWait(p) ==
    /\ pc[p] = "emb_try_wait"
    /\ LET st == ChildOf(p).st IN
       IF st # Running
       THEN /\ ret' = [ret EXCEPT ![p] =
                          Err(<<"Server process exited early with status: ", st>>)]
            /\ trace' = Log(p, Ev("try_wait", PathStr(resource_path), "exited", st))
       ELSE /\ ret' = [ret EXCEPT ![p] = Ok(<<>>)]
            /\ trace' = Log(p, Ev("try_wait", PathStr(resource_path), "running", ""))
    /\ pc' = [pc EXCEPT ![p] = "return"]
    /\ UNCHANGED <<exists, resourceExists, stack, idx, outcome, reported,
                   children, calls, net, health>>
    /\ UNCHANGED waitVars

\* match child.try_wait(): Err(e), whatever the child is doing
EmbTryWaitErr(p) ==
    /\ pc[p] = "emb_try_wait"
    /\ \E e \in IoErrors :
        /\ ret' = [ret EXCEPT ![p] = Err(<<"Error checking server process: ", e>>)]
        /\ trace' = Log(p, Ev("try_wait", PathStr(resource_path), "error", e))
    /\ pc' = [pc EXCEPT ![p] = "return"]
    /\ UNCHANGED <<exists, resourceExists, stack, idx, outcome, reported,
                   children, calls, net, health>>
    /\ UNCHANGED waitVars

(***************************************************************************)
(* start_server (lib.rs): for path in server_paths                         *)
(***************************************************************************)
\* variant: the loop walks the list from its end
RECURSIVE NextExisting_reversed(_)
NextExisting_reversed(i) ==
    IF i > NumPaths THEN NumPaths + 1
    ELSE IF NextExisting_reversed(i + 1) <= NumPaths THEN NextExisting_reversed(i + 1)
    ELSE IF exists[i] THEN i
    ELSE NumPaths + 1

\* variant: the loop body lacks the `if path_buf.exists()` test
NextExisting_unchecked(i) ==
    IF i > NumPaths THEN NumPaths + 1 ELSE i

\* the iteration at which the loop, resumed at position i, next finds
\* path_buf.exists() true; NumPaths + 1 when it runs off the list
RECURSIVE NextExisting(_)
NextExisting(i) ==
    IF i > NumPaths THEN NumPaths + 1
    ELSE IF exists[i] THEN i
    ELSE NextExisting(i + 1)

\* variant: a successful spawn does not end the loop
SsSpawnOk_keepsGoing(p) ==
    /\ pc[p] = "ss_loop"
    /\ NextExisting(idx[p]) <= NumPaths
    /\ LET i == NextExisting(idx[p]) IN
        /\ children' = children \cup {Child(server_command(i), p, calls[p])}
        /\ trace' = Log(p, Ev("spawn", PathStr(server_paths[i]), "ok", ""))
        /\ idx' = [idx EXCEPT ![p] = i + 1]
    /\ UNCHANGED <<exists, resourceExists, pc, stack, ret, outcome, reported,
                   calls, net, health>>
    /\ UNCHANGED waitVars

\* the path exists and spawn() is Ok(_): return Ok("Server started from ..")
SsSpawnOk(p) ==
    /\ pc[p] = "ss_loop"
    /\ NextExisting(idx[p]) <= NumPaths
    /\ LET i == NextExisting(idx[p]) IN
        /\ children' = children \cup {Child(server_command(i), p, calls[p])}
        /\ ret' = [ret EXCEPT ![p] = Ok(<<"Server started from ", PathStr(server_paths[i])>>)]
        /\ trace' = Log(p, Ev("spawn", PathStr(server_paths[i]), "ok", ""))
        /\ idx' = [idx EXCEPT ![p] = i]
    /\ pc' = [pc EXCEPT ![p] = "return"]
    /\ UNCHANGED <<exists, resourceExists, stack, outcome, reported,
                   calls, net, health>>
    /\ UNCHANGED waitVars

\* variant: a failed spawn ends the pass with the error
SsSpawnErr_fatal(p) ==
    /\ pc[p] = "ss_loop"
    /\ NextExisting(idx[p]) <= NumPaths
    /\ LET i == NextExisting(idx[p]) IN
        /\ \E e \in IoErrors :
            /\ trace' = Log(p, Ev("spawn", PathStr(server_paths[i]), "error", e))
            /\ ret' = [ret EXCEPT ![p] = Err(<<"Failed to start server: ", e>>)]
        /\ idx' = [idx EXCEPT ![p] = i]
    /\ pc' = [pc EXCEPT ![p] = "return"]
    /\ UNCHANGED <<exists, resourceExists, stack, outcome, reported,
                   children, calls, net, health>>
    /\ UNCHANGED waitVars

\* the path exists and spawn() is Err(e): log::warn!, next path
SsSpawnErr(p) ==
    /\ pc[p] = "ss_loop"
    /\ NextExisting(idx[p]) <= NumPaths
    /\ LET i == NextExisting(idx[p]) IN
        /\ \E e \in IoErrors :
            trace' = Log(p, Ev("spawn", PathStr(server_paths[i]), "error", e))
        /\ idx' = [idx EXCEPT ![p] = i + 1]
    /\ UNCHANGED <<exists, resourceExists, pc, stack, ret, outcome, reported,
                   children, calls, net, health>>
    /\ UNCHANGED waitVars

\* the loop is over: Err("Could not find or start server executable")
SsNotStarted(p) ==
    /\ pc[p] = "ss_loop"
    /\ NextExisting(idx[p]) > NumPaths
    /\ ret' = [ret EXCEPT ![p] = Err(<<"Could not find or start server executable">>)]
    /\ trace' = Log(p, Ev("start_server", "", "not_started", ""))
    /\ pc' = [pc EXCEPT ![p] = "return"]
    /\ idx' = [idx EXCEPT ![p] = NumPaths + 1]
    /\ UNCHANGED <<exists, resourceExists, stack, outcome, reported,
                   children, calls, net, health>>
    /\ UNCHANGED waitVars

(***************************************************************************)
(* Commands invoked by the frontend through the invoke_handler             *)
(***************************************************************************)
CmdStartServer(p) ==
    /\ p = Frontend
    /\ pc[p] = "idle"
    /\ calls[p] < MaxCalls
    /\ calls' = [calls EXCEPT ![p] = @ + 1]
    /\ pc' = [pc EXCEPT ![p] = "ss_loop"]
    /\ stack' = [stack EXCEPT ![p] = <<"cmd_start_server">>]
    /\ idx' = [idx EXCEPT ![p] = 1]
    /\ trace' = [trace EXCEPT ![p] = <<Ev("start_server", "", "command", "")>>]
    /\ outcome' = [outcome EXCEPT ![p] = "none"]
    /\ reported' = [reported EXCEPT ![p] = <<>>]
    /\ UNCHANGED <<exists, resourceExists, ret, children, net, health>>
    /\ UNCHANGED waitVars

CmdStartEmbedded(p) ==
    /\ p = Frontend
    /\ pc[p] = "idle"
    /\ calls[p] < MaxCalls
    /\ calls' = [calls EXCEPT ![p] = @ + 1]
    /\ pc' = [pc EXCEPT ![p] = "emb_entry"]
    /\ stack' = [stack EXCEPT ![p] = <<"cmd_start_embedded">>]
    /\ trace' = [trace EXCEPT ![p] = <<Ev("start_embedded_server", "", "command", "")>>]
    /\ outcome' = [outcome EXCEPT ![p] = "none"]
    /\ reported' = [reported EXCEPT ![p] = <<>>]
    /\ UNCHANGED <<exists, resourceExists, idx, ret, children, net, health>>
    /\ UNCHANGED waitVars

\* the command's Result goes back to the frontend
CmdReturn(p) ==
    /\ pc[p] = "return"
    /\ stack[p] \in {<<"cmd_start_server">>, <<"cmd_start_embedded">>, <<"cmd_wait">>}
    /\ Finish(p, IF ret[p].ok THEN "cmd_ok" ELSE "cmd_err", ret[p].val)
    /\ idx' = [idx EXCEPT ![p] = 1]
    /\ ret' = [ret EXCEPT ![p] = NoRet]
    /\ UNCHANGED <<exists, resourceExists, trace, children, calls, net, health>>
    /\ UNCHANGED waitVars

(***************************************************************************)
(* The operating system: a spawned server process may terminate.           *)
(***************************************************************************)
ChildExit ==
    /\ \E c \in children :
        /\ c.st = Running
        /\ \E s \in ExitStatuses :
            children' = (children \ {c}) \cup {[c EXCEPT !.st = s]}
    /\ UNCHANGED <<exists, resourceExists, pc, stack, idx, ret, trace, outcome,
                   reported, calls, net, health>>
    /\ UNCHANGED waitVars

Next ==
    \/ \E p \in Procs : RunSleep(p)
    \/ \E p \in Procs : RunProbe(p)
    \/ \E p \in Procs : RunAfterEmbedded(p)
    \/ \E p \in Procs : RunAfterFallback(p)
    \/ \E p \in Procs : EmbResourceDirErr(p)
    \/ \E p \in Procs : EmbAbsent(p)
    \/ \E p \in Procs : EmbSpawnOk(p)
    \/ \E p \in Procs : EmbSpawnErr(p)
    \/ \E p \in Procs : EmbGrace(p)
    \/ \E p \in Procs : EmbTryWait(p)
    \/ \E p \in Procs : EmbTryWaitErr(p)
    \/ \E p \in Procs : SsSpawnOk(p)
    \/ \E p \in Procs : SsSpawnErr(p)
    \/ \E p \in Procs : SsNotStarted(p)
    \/ \E p \in Procs : CmdStartServer(p)
    \/ \E p \in Procs : CmdStartEmbedded(p)
    \/ \E p \in Procs : CmdReturn(p)
    \/ ChildExit

Spec == Init /\ [][Next]_vars

(***************************************************************************)
(* wait_for_server_ready: for i in 0..30                                   *)
(***************************************************************************)
\* variant: the range is 0..=30
max_attempts_inclusive == 30 + 1

max_attempts == 30

interval_secs == 1

CmdWaitForServerReady(p) ==
    /\ p = Frontend
    /\ pc[p] = "idle"
    /\ calls[p] < MaxCalls
    /\ calls' = [calls EXCEPT ![p] = @ + 1]
    /\ pc' = [pc EXCEPT ![p] = "w_loop"]
    /\ stack' = [stack EXCEPT ![p] = <<"cmd_wait">>]
    /\ trace' = [trace EXCEPT ![p] = <<Ev("wait_for_server_ready", "", "command", "")>>]
    /\ outcome' = [outcome EXCEPT ![p] = "none"]
    /\ reported' = [reported EXCEPT ![p] = <<>>]
    /\ wi' = [wi EXCEPT ![p] = 0]
    /\ probes' = [probes EXCEPT ![p] = 0]
    /\ unhealthy' = [unhealthy EXCEPT ![p] = 0]
    /\ sleeps' = [sleeps EXCEPT ![p] = 0]
    /\ elapsed' = [elapsed EXCEPT ![p] = 0]
    /\ net' = [net EXCEPT ![p] = "none"]
    /\ health' = [health EXCEPT ![p] = NoHealth]
    /\ UNCHANGED <<exists, resourceExists, idx, ret, children>>

\* variant: an unhealthy probe goes to the next iteration without sleeping
WaitProbe_busyPolls(p) ==
    /\ pc[p] = "w_loop"
    /\ wi[p] < max_attempts
    /\ \E n \in NetOutcomes : \E d \in ProbeSeconds(n) :
        LET r == check_server_health(n) IN
        /\ net' = [net EXCEPT ![p] = n]
        /\ health' = [health EXCEPT ![p] = r]
        /\ probes' = [probes EXCEPT ![p] = @ + 1]
        /\ elapsed' = [elapsed EXCEPT ![p] = @ + d]
        /\ IF r.ok /\ r.val
           THEN /\ ret' = [ret EXCEPT ![p] = Ok(<<"true">>)]
                /\ pc' = [pc EXCEPT ![p] = "return"]
                /\ UNCHANGED <<unhealthy, wi>>
           ELSE /\ wi' = [wi EXCEPT ![p] = @ + 1]
                /\ unhealthy' = [unhealthy EXCEPT ![p] = @ + 1]
                /\ UNCHANGED <<pc, ret>>
    /\ UNCHANGED <<exists, resourceExists, stack, idx, trace, outcome, reported,
                   children, calls, sleeps>>

\* match check_server_health().await, for the iteration i = wi[p]
WaitProbe(p) ==
    /\ pc[p] = "w_loop"
    /\ wi[p] < max_attempts
    /\ \E n \in NetOutcomes : \E d \in ProbeSeconds(n) :
        LET r == check_server_health(n) IN
        /\ net' = [net EXCEPT ![p] = n]
        /\ health' = [health EXCEPT ![p] = r]
        /\ probes' = [probes EXCEPT ![p] = @ + 1]
        /\ elapsed' = [elapsed EXCEPT ![p] = @ + d]
        /\ IF r.ok /\ r.val
           THEN /\ ret' = [ret EXCEPT ![p] = Ok(<<"true">>)]
                /\ pc' = [pc EXCEPT ![p] = "return"]
                /\ UNCHANGED unhealthy
           ELSE /\ pc' = [pc EXCEPT ![p] = IF r.ok THEN "w_sleep" ELSE "w_sleep_err"]
                /\ unhealthy' = [unhealthy EXCEPT ![p] = @ + 1]
                /\ UNCHANGED ret
    /\ UNCHANGED <<exists, resourceExists, stack, idx, trace, outcome, reported,
                   children, calls, wi, sleeps>>

\* tokio::time::sleep(1 s) of the Ok(false) and of the Err(e) arm, then i + 1
WaitSleep(p) ==
    /\ pc[p] \in {"w_sleep", "w_sleep_err"}
    /\ sleeps' = [sleeps EXCEPT ![p] = @ + 1]
    /\ elapsed' = [elapsed EXCEPT ![p] = @ + interval_secs]
    /\ wi' = [wi EXCEPT ![p] = @ + 1]
    /\ pc' = [pc EXCEPT ![p] = "w_loop"]
    /\ UNCHANGED <<exists, resourceExists, stack, idx, ret, trace, outcome, reported,
                   children, calls, probes, unhealthy, net, health>>

\* variant: when the loop is over the function reports Ok(false)
WaitTimedOut_okFalse(p) ==
    /\ pc[p] = "w_loop"
    /\ wi[p] >= max_attempts
    /\ ret' = [ret EXCEPT ![p] = Ok(<<"false">>)]
    /\ pc' = [pc EXCEPT ![p] = "return"]
    /\ UNCHANGED <<exists, resourceExists, stack, idx, trace, outcome, reported,
                   children, calls, net, health>>
    /\ UNCHANGED waitVars

\* the loop is over: Err("Server failed to start within 30 seconds")
WaitTimedOut(p) ==
    /\ pc[p] = "w_loop"
    /\ wi[p] >= max_attempts
    /\ ret' = [ret EXCEPT ![p] = Err(<<"Server failed to start within 30 seconds">>)]
    /\ pc' = [pc EXCEPT ![p] = "return"]
    /\ UNCHANGED <<exists, resourceExists, stack, idx, trace, outcome, reported,
                   children, calls, net, health>>
    /\ UNCHANGED waitVars

\* the probes read nothing on disk: one disk layout is enough
InitWait ==
    /\ Init
    /\ exists = [i \in 1..NumPaths |-> FALSE]
    /\ resourceExists = FALSE

NextWait ==
    \/ \E p \in Procs : RunSleep(p)
    \/ \E p \in Procs : RunProbe(p)
    \/ \E p \in Procs : CmdWaitForServerReady(p)
    \/ \E p \in Procs : WaitProbe(p)
    \/ \E p \in Procs : WaitSleep(p)
    \/ \E p \in Procs : WaitTimedOut(p)
    \/ \E p \in Procs : CmdReturn(p)

SpecWait == InitWait /\ [][NextWait]_vars

(***************************************************************************)
(* Termination.  The startup task runs alone to its end; the frontend then *)
(* waits for readiness.  wait_for_server_ready reads and writes nothing    *)
(* the startup task or the disk touches, so it is explored from one end    *)
(* state of the startup task.  The runtime keeps polling a spawned task    *)
(* and a command future, every sleep ends and every request returns within *)
(* its timeout: a task that can take a step eventually takes one.          *)
(***************************************************************************)
StartupStep(p) ==
    \/ RunSleep(p)
    \/ RunProbe(p)
    \/ RunAfterEmbedded(p)
    \/ RunAfterFallback(p)
    \/ EmbResourceDirErr(p)
    \/ EmbAbsent(p)
    \/ EmbSpawnOk(p)
    \/ EmbSpawnErr(p)
    \/ EmbGrace(p)
    \/ EmbTryWait(p)
    \/ EmbTryWaitErr(p)
    \/ SsSpawnOk(p)
    \/ SsSpawnErr(p)
    \/ SsNotStarted(p)

WaitStep(p) ==
    \/ WaitProbe(p)
    \/ WaitSleep(p)
    \/ WaitTimedOut(p)
    \/ CmdReturn(p)

WaitAfterStartup(p) ==
    /\ pc[SetupTask] = "done"
    /\ outcome[SetupTask] = "already_running"
    /\ \A i \in 1..NumPaths : ~exists[i]
    /\ ~resourceExists
    /\ CmdWaitForServerReady(p)

NextTerm ==
    \/ \E p \in Procs : StartupStep(p)
    \/ \E p \in Procs : WaitAfterStartup(p)
    \/ \E p \in Procs : WaitStep(p)
    \/ ChildExit

SpecTerm ==
    /\ Init
    /\ [][NextTerm]_vars
    /\ WF_vars(StartupStep(SetupTask))
    /\ WF_vars(WaitStep(Frontend))

(***************************************************************************)
(* main.rs: the start_server command of the second binary, which runs      *)
(* `pnpm start` in <parent of the current directory>/server and waits for  *)
(* it with Command::output().                                              *)
(***************************************************************************)
\* values env::current_dir() can return
PmCwds == { <<"/">>, <<"/", "app">>, <<"/", "app", "/", "client">> }

\* Path::parent: None (<<>>) for the root, else the path without its last
\* component
parent(toks) ==
    IF Len(toks) <= 1 THEN <<>>
    ELSE IF Len(toks) = 2 THEN <<toks[1]>>
    ELSE SubSeq(toks, 1, Len(toks) - 2)

\* Path::join
join(dir, name) ==
    IF dir[Len(dir)] = "/" THEN dir \o <<name>> ELSE dir \o <<"/", name>>

\* ExitStatus values `pnpm start` can end with
PmExitStatuses == {"exit status: 0", "exit status: 1"}

\* ExitStatus::success
success(st) == st = "exit status: 0"

\* what the child can have written to its stderr
PmStderr == {"", "ERR_PNPM_NO_SCRIPT"}

\* Command::new("pnpm").arg("start").current_dir(&server_dir), run by output()
pm_command(server_dir) == Command("pnpm", <<"start">>, PathStr(server_dir), "piped")

\* the variables main.rs has no use for
libVars == <<exists, resourceExists, idx, net, health>>

\* the frontend invokes start_server of main.rs
CmdPmStartServer(p) ==
    /\ p = Frontend
    /\ pc[p] = "idle"
    /\ calls[p] < MaxPmCalls
    /\ calls' = [calls EXCEPT ![p] = @ + 1]
    /\ pc' = [pc EXCEPT ![p] = "pm_entry"]
    /\ stack' = [stack EXCEPT ![p] = <<"cmd_pm_start_server">>]
    /\ trace' = [trace EXCEPT ![p] = <<Ev("pm_start_server", "", "command", "")>>]
    /\ outcome' = [outcome EXCEPT ![p] = "none"]
    /\ reported' = [reported EXCEPT ![p] = <<>>]
    /\ UNCHANGED <<ret, children>>
    /\ UNCHANGED libVars
    /\ UNCHANGED waitVars

\* env::current_dir() is Err(e): the `?` returns e.to_string()
PmCurrentDirErr(p) ==
    /\ pc[p] = "pm_entry"
    /\ \E e \in IoErrors :
        /\ ret' = [ret EXCEPT ![p] = Err(<<e>>)]
        /\ trace' = Log(p, Ev("current_dir", "", "error", e))
    /\ pc' = [pc EXCEPT ![p] = "pm_return"]
    /\ UNCHANGED <<stack, outcome, reported, children, calls>>
    /\ UNCHANGED libVars
    /\ UNCHANGED waitVars

\* current_dir.parent() is None
PmNoParent(p) ==
    /\ pc[p] = "pm_entry"
    /\ \E cwd \in PmCwds :
        /\ parent(cwd) = <<>>
        /\ trace' = Log(p, Ev("parent", PathStr(cwd), "none", ""))
    /\ ret' = [ret EXCEPT ![p] = Err(<<"Could not find parent directory">>)]
    /\ pc' = [pc EXCEPT ![p] = "pm_return"]
    /\ UNCHANGED <<stack, outcome, reported, children, calls>>
    /\ UNCHANGED libVars
    /\ UNCHANGED waitVars

\* !server_dir.exists()
PmDirAbsent(p) ==
    /\ pc[p] = "pm_entry"
    /\ \E cwd \in PmCwds :
        /\ parent(cwd) # <<>>
        /\ trace' = Log(p, Ev("exists", PathStr(join(parent(cwd), "server")), "absent", ""))
    /\ ret' = [ret EXCEPT ![p] = Err(<<"Server directory not found">>)]
    /\ pc' = [pc EXCEPT ![p] = "pm_return"]
    /\ UNCHANGED <<stack, outcome, reported, children, calls>>
    /\ UNCHANGED libVars
    /\ UNCHANGED waitVars

\* the directory exists and output() cannot spawn pnpm
PmSpawnErr(p) ==
    /\ pc[p] = "pm_entry"
    /\ \E cwd \in PmCwds : \E e \in IoErrors :
        /\ parent(cwd) # <<>>
        /\ trace' = [trace EXCEPT ![p] =
               @ \o << Ev("exists", PathStr(join(parent(cwd), "server")), "present", ""),
                       Ev("spawn", "pnpm", "error", e) >>]
        /\ ret' = [ret EXCEPT ![p] = Err(<<"Failed to start server: ", e>>)]
    /\ pc' = [pc EXCEPT ![p] = "pm_return"]
    /\ UNCHANGED <<stack, outcome, reported, children, calls>>
    /\ UNCHANGED libVars
    /\ UNCHANGED waitVars

\* the directory exists and output() has spawned pnpm; output() now blocks
PmSpawnOk(p) ==
    /\ pc[p] = "pm_entry"
    /\ \E cwd \in PmCwds :
        /\ parent(cwd) # <<>>
        /\ LET server_dir == join(parent(cwd), "server") IN
            /\ children' = children \cup {Child(pm_command(server_dir), p, calls[p])}
            /\ trace' = [trace EXCEPT ![p] =
                   @ \o << Ev("exists", PathStr(server_dir), "present", ""),
                           Ev("spawn", "pnpm", "ok", "") >>]
    /\ pc' = [pc EXCEPT ![p] = "pm_output"]
    /\ UNCHANGED <<stack, ret, outcome, reported, calls>>
    /\ UNCHANGED libVars
    /\ UNCHANGED waitVars

\* the operating system: `pnpm start` terminates
PmChildExit ==
    /\ \E c \in children :
        /\ c.st = Running
        /\ \E s \in PmExitStatuses :
            children' = (children \ {c}) \cup {[c EXCEPT !.st = s]}
    /\ UNCHANGED <<pc, stack, ret, trace, outcome, reported, calls>>
    /\ UNCHANGED libVars
    /\ UNCHANGED waitVars

\* the child task p is waiting for inside output()
PmChildOf(p) ==
    CHOOSE c \in children : c.by = p /\ c.call = calls[p]

\* variant: the child is spawned and not waited for
PmOutput_detached(p) ==
    /\ pc[p] = "pm_output"
    /\ LET c == PmChildOf(p) IN
        /\ ret' = [ret EXCEPT ![p] = Ok(<<"Server started successfully">>)]
        /\ trace' = Log(p, Ev("output", "pnpm", "detached", c.st))
    /\ pc' = [pc EXCEPT ![p] = "pm_return"]
    /\ UNCHANGED <<stack, outcome, reported, children, calls>>
    /\ UNCHANGED libVars
    /\ UNCHANGED waitVars

\* output() returns once the child has exited; the result follows
\* output.status.success()
PmOutput(p) ==
    /\ pc[p] = "pm_output"
    /\ LET c == PmChildOf(p) IN
        /\ c.st # Running
        /\ trace' = Log(p, Ev("output", "pnpm", "exited", c.st))
        /\ IF success(c.st)
           THEN ret' = [ret EXCEPT ![p] = Ok(<<"Server started successfully">>)]
           ELSE \E error \in PmStderr :
                    ret' = [ret EXCEPT ![p] = Err(<<"Failed to start server: ", error>>)]
    /\ pc' = [pc EXCEPT ![p] = "pm_return"]
    /\ UNCHANGED <<stack, outcome, reported, children, calls>>
    /\ UNCHANGED libVars
    /\ UNCHANGED waitVars

\* the invoke handler of main.rs hands the Result to the frontend
PmReturn(p) ==
    /\ pc[p] = "pm_return"
    /\ stack[p] = <<"cmd_pm_start_server">>
    /\ Finish(p, IF ret[p].ok THEN "cmd_ok" ELSE "cmd_err", ret[p].val)
    /\ ret' = [ret EXCEPT ![p] = NoRet]
    /\ UNCHANGED <<trace, children, calls>>
    /\ UNCHANGED libVars
    /\ UNCHANGED waitVars

\* main() of main.rs registers the commands and starts no task of its own
InitPm ==
    /\ exists = [i \in 1..NumPaths |-> FALSE]
    /\ resourceExists = FALSE
    /\ pc = [p \in Procs |-> IF p = SetupTask THEN "done" ELSE "idle"]
    /\ stack = [p \in Procs |-> <<>>]
    /\ idx = [p \in Procs |-> 1]
    /\ ret = [p \in Procs |-> NoRet]
    /\ trace = [p \in Procs |-> <<>>]
    /\ outcome = [p \in Procs |-> "none"]
    /\ reported = [p \in Procs |-> <<>>]
    /\ children = {}
    /\ calls = [p \in Procs |-> 0]
    /\ wi = [p \in Procs |-> 0]
    /\ probes = [p \in Procs |-> 0]
    /\ unhealthy = [p \in Procs |-> 0]
    /\ sleeps = [p \in Procs |-> 0]
    /\ elapsed = [p \in Procs |-> 0]
    /\ net = [p \in Procs |-> "none"]
    /\ health = [p \in Procs |-> NoHealth]

NextPm ==
    \/ \E p \in Procs : CmdPmStartServer(p)
    \/ \E p \in Procs : PmCurrentDirErr(p)
    \/ \E p \in Procs : PmNoParent(p)
    \/ \E p \in Procs : PmDirAbsent(p)
    \/ \E p \in Procs : PmSpawnErr(p)
    \/ \E p \in Procs : PmSpawnOk(p)
    \/ \E p \in Procs : PmOutput(p)
    \/ \E p \in Procs : PmReturn(p)
    \/ PmChildExit

SpecPm == InitPm /\ [][NextPm]_vars

(***************************************************************************)
(* Vocabulary of the properties                                            *)
(***************************************************************************)
Range(f) == {f[k] : k \in DOMAIN f}

\* task p is between the entry and the return of start_server or
\* start_embedded_server: a launch attempt of p is in flight
InLaunch(p) == pc[p] \in {"emb_entry", "emb_grace", "emb_try_wait", "ss_loop"}

\* the event records a call of Command::spawn
IsSpawn(e) == e.op = "spawn"

\* the event is the entry of one pass of start_server over server_paths
IsDiscovery(e) == e.op = "start_server" /\ e.res \in {"command", "resource_absent", "fallback"}

\* the event is the end of a pass of start_server that started nothing
IsNotStarted(e) == e.op = "start_server" /\ e.res = "not_started"

\* the paths of server_paths that exist on disk
Existing == {i \in 1..NumPaths : exists[i]}

\* the first of them in the order of the list
FirstExisting == CHOOSE i \in Existing : \A j \in Existing : i <= j

StartupDone == pc[SetupTask] = "done"

(***************************************************************************)
(* C1: at most one launch attempt (start_server or start_embedded_server,  *)
(* from the startup task or from a command) is in flight at a time.        *)
(* The code takes no lock and keeps no state: the startup task and a       *)
(* command run their attempts side by side.                                *)
(***************************************************************************)
AtMostOneLaunchAttempt ==
    Cardinality({p \in Procs : InLaunch(p)}) <= 1

(***************************************************************************)
(* C2: when the first probe of the startup task is healthy, the task ends  *)
(* at once and has called spawn zero times.                                *)
(***************************************************************************)
HealthyStartupSpawnsNothing ==
    (\E k \in DOMAIN trace[SetupTask] :
        /\ trace[SetupTask][k].op = "probe"
        /\ trace[SetupTask][k].res = "healthy")
    => /\ StartupDone
       /\ outcome[SetupTask] = "already_running"
       /\ Len(trace[SetupTask]) = 2
       /\ \A e \in Range(trace[SetupTask]) : ~IsSpawn(e) /\ ~IsDiscovery(e)
       /\ \A c \in children : c.by # SetupTask

\* the startup task found the server healthy although a bundled executable
\* was there to be launched
HealthyStartupWitness ==
    /\ StartupDone
    /\ outcome[SetupTask] = "already_running"
    /\ health[SetupTask] = Ok(TRUE)
    /\ resourceExists
    /\ Existing # {}

(***************************************************************************)
(* C3: a startup task that ends having spawned a server has polled the     *)
(* health endpoint after the spawn and seen it healthy.  The task of run() *)
(* never calls wait_for_server_ready: it ends on the Ok of the launch.     *)
(***************************************************************************)
StartupSpawnIsPolledReady ==
    (StartupDone /\ outcome[SetupTask] \in {"embedded_started", "fallback_started"})
    => \E k \in DOMAIN trace[SetupTask] : \E j \in DOMAIN trace[SetupTask] :
        /\ IsSpawn(trace[SetupTask][k])
        /\ trace[SetupTask][k].res = "ok"
        /\ j > k
        /\ trace[SetupTask][j].op = "probe"
        /\ trace[SetupTask][j].res = "healthy"

(***************************************************************************)
(* C4: in the startup task, after every failure of the embedded launch     *)
(* (bundled executable absent, spawn error, exit during the grace period)  *)
(* a pass of start_server over the external locations is made before the   *)
(* task ends.                                                              *)
(***************************************************************************)
EmbeddedFailed(e) ==
    \/ e.op = "start_server" /\ e.res = "resource_absent"
    \/ e.op = "spawn" /\ e.path = PathStr(resource_path) /\ e.res = "error"
    \/ e.op = "try_wait" /\ e.res = "exited"

EmbeddedFailureFallsBack ==
    StartupDone =>
        \A k \in DOMAIN trace[SetupTask] :
            EmbeddedFailed(trace[SetupTask][k]) =>
                /\ \E j \in k..Len(trace[SetupTask]) : IsDiscovery(trace[SetupTask][j])
                /\ outcome[SetupTask] \in {"embedded_started", "fallback_started", "all_failed"}
                /\ outcome[SetupTask] = "all_failed" =>
                       IsNotStarted(trace[SetupTask][Len(trace[SetupTask])])

\* the bundled server exited during the grace period, the external pass was
\* made and started nothing, and only then the task gave up
EmbeddedFailureWitness ==
    /\ StartupDone
    /\ outcome[SetupTask] = "all_failed"
    /\ \E k \in DOMAIN trace[SetupTask] :
        /\ trace[SetupTask][k].op = "try_wait"
        /\ trace[SetupTask][k].res = "exited"
        /\ k < Len(trace[SetupTask])
        /\ IsDiscovery(trace[SetupTask][k + 1])

(***************************************************************************)
(* C5: whatever subset of server_paths exists on disk, every pass of       *)
(* start_server calls spawn first on the first existing path of the list,  *)
(* with the Command built for that path, and a success there is what the   *)
(* pass returns.                                                           *)
(***************************************************************************)
FirstExistingIsLaunched ==
    Existing # {} =>
        \A p \in Procs : \A k \in DOMAIN trace[p] :
            (IsDiscovery(trace[p][k]) /\ k < Len(trace[p])) =>
                LET e == trace[p][k + 1] IN
                /\ IsSpawn(e)
                /\ e.path = PathStr(server_paths[FirstExisting])
                /\ e.res = "ok" =>
                    /\ \E c \in children :
                        c.by = p /\ c.cmd = server_command(FirstExisting)
                    /\ (pc[p] = "return" /\ k + 1 = Len(trace[p])) =>
                        ret[p] = Ok(<<"Server started from ",
                                      PathStr(server_paths[FirstExisting])>>)

\* the second location is launched although the fourth and fifth exist too
FirstExistingWitness ==
    /\ exists = <<FALSE, TRUE, FALSE, TRUE, TRUE>>
    /\ \E p \in Procs :
        /\ pc[p] = "return"
        /\ ret[p] = Ok(<<"Server started from ", "../server/start.js">>)
        /\ \E c \in children : c.by = p /\ c.cmd.args = <<"../server/start.js">>

(***************************************************************************)
(* C6: when no path of server_paths exists, a pass of start_server ends    *)
(* with Err("Could not find or start server executable") as its value and  *)
(* has not called spawn.                                                   *)
(***************************************************************************)
NoCandidateNoSpawn ==
    Existing = {} =>
        /\ \A c \in children : c.cmd = embedded_command
        /\ \A p \in Procs : \A k \in DOMAIN trace[p] :
            /\ IsSpawn(trace[p][k]) => trace[p][k].path = PathStr(resource_path)
            /\ (IsDiscovery(trace[p][k]) /\ k < Len(trace[p])) =>
                /\ IsNotStarted(trace[p][k + 1])
                /\ (pc[p] = "return" /\ k + 1 = Len(trace[p])) =>
                    ret[p] = Err(<<"Could not find or start server executable">>)

\* the start_server command is about to return not-found to the frontend
NoCandidateWitness ==
    /\ Existing = {}
    /\ pc[Frontend] = "return"
    /\ stack[Frontend] = <<"cmd_start_server">>
    /\ ret[Frontend] = Err(<<"Could not find or start server executable">>)
    /\ children = {}

(***************************************************************************)
(* C10: a failed attempt reports a reason that carries the last concrete   *)
(* error met during the attempt: the io::Error of the last failed spawn,   *)
(* the exit status of the early exit, or not-found.  start_server only     *)
(* logs a spawn error and returns the fixed not-found text.                *)
(***************************************************************************)
\* event k of tr is a concrete error: a failed spawn, a failed or early-exit
\* try_wait, or a pass of start_server that found no path at all
ConcreteError(tr, k) ==
    \/ tr[k].op = "spawn" /\ tr[k].res = "error"
    \/ tr[k].op = "try_wait" /\ tr[k].res \in {"exited", "error"}
    \/ tr[k].op = "resource_dir" /\ tr[k].res = "error"
    \/ IsNotStarted(tr[k]) /\ k > 1 /\ IsDiscovery(tr[k - 1])

\* the reported message carries the error of event e
Carries(msg, e) ==
    IF IsNotStarted(e)
    THEN "Could not find or start server executable" \in Range(msg)
    ELSE e.detail \in Range(msg)

FailureCarriesLastError ==
    \A p \in Procs :
        (pc[p] \in {"done", "idle"} /\ outcome[p] \in {"all_failed", "cmd_err"}) =>
            \A k \in DOMAIN trace[p] :
                (/\ ConcreteError(trace[p], k)
                 /\ \A j \in (k + 1)..Len(trace[p]) : ~ConcreteError(trace[p], j))
                => Carries(reported[p], trace[p][k])

(***************************************************************************)
(* C7: check_server_health never returns Err.  Whatever the request met,   *)
(* the caller gets Ok(b), b true exactly for a 2xx response; the Err arms  *)
(* of wait_for_server_ready and of the startup task are never entered.     *)
(***************************************************************************)
HealthProbeNeverErrs ==
    /\ \A p \in Procs :
        /\ probes[p] > 0 =>
            /\ health[p].ok
            /\ health[p].val \in BOOLEAN
            /\ health[p].val <=> net[p] \in {"200", "204"}
        /\ pc[p] # "w_sleep_err"
    /\ outcome[SetupTask] # "health_error"

\* a request that timed out has come back as Ok(false) and the loop sleeps
\* in its Ok(false) arm
HealthProbeWitness ==
    /\ health[SetupTask] = Ok(FALSE)
    /\ pc[SetupTask] = "emb_entry"
    /\ net[Frontend] = "timeout"
    /\ health[Frontend] = Ok(FALSE)
    /\ pc[Frontend] = "w_sleep"
    /\ probes[Frontend] > 1

(***************************************************************************)
(* C8: wait_for_server_ready issues at most 30 probes; it returns Ok(true) *)
(* on the first healthy probe and issues none after it; it returns the     *)
(* timed-out error only after exactly 30 probes, all of them unhealthy.    *)
(***************************************************************************)
\* the wait_for_server_ready call of p has produced its Result
WaitReturned(p) ==
    /\ trace[p] # <<>>
    /\ trace[p][1].op = "wait_for_server_ready"
    /\ \/ pc[p] = "return"
       \/ pc[p] = "idle" /\ outcome[p] \in {"cmd_ok", "cmd_err"}

WaitResultOk(p) ==
    \/ pc[p] = "return" /\ ret[p] = Ok(<<"true">>)
    \/ pc[p] = "idle" /\ outcome[p] = "cmd_ok" /\ reported[p] = <<"true">>

WaitResultTimedOut(p) ==
    \/ pc[p] = "return" /\ ret[p] = Err(<<"Server failed to start within 30 seconds">>)
    \/ /\ pc[p] = "idle"
       /\ outcome[p] = "cmd_err"
       /\ reported[p] = <<"Server failed to start within 30 seconds">>

WaitProbesBounded ==
    \A p \in Procs :
        /\ probes[p] <= 30
        /\ unhealthy[p] <= probes[p]
        /\ WaitReturned(p) =>
            /\ WaitResultOk(p) \/ WaitResultTimedOut(p)
            /\ WaitResultOk(p) =>
                /\ health[p] = Ok(TRUE)
                /\ unhealthy[p] = probes[p] - 1
            /\ WaitResultTimedOut(p) =>
                /\ probes[p] = 30
                /\ unhealthy[p] = 30
        /\ ~WaitReturned(p) => unhealthy[p] = probes[p]

\* the call gave up: thirty probes, thirty unhealthy
WaitTimedOutWitness ==
    /\ WaitReturned(Frontend)
    /\ WaitResultTimedOut(Frontend)
    /\ probes[Frontend] = 30
    /\ unhealthy[Frontend] = 30

(***************************************************************************)
(* C9: wait_for_server_ready returns within maxAttempts x interval = 30    *)
(* seconds, the time of its probes included.  A probe may take up to its   *)
(* 5 s timeout, five times the 1 s interval.                               *)
(***************************************************************************)
WaitReturnsWithinThirtySeconds ==
    \A p \in Procs : WaitReturned(p) => elapsed[p] <= 30

(***************************************************************************)
(* C11: a start_server or start_embedded_server command probes the health  *)
(* endpoint before it launches anything, so that a healthy server is left  *)
(* alone.  Neither command calls check_server_health: both go straight to  *)
(* the existence tests and to spawn.                                       *)
(***************************************************************************)
CommandProbesBeforeSpawn ==
    \A k \in DOMAIN trace[Frontend] :
        IsSpawn(trace[Frontend][k]) =>
            \E j \in 1..(k - 1) : trace[Frontend][j].op = "probe"

(***************************************************************************)
(* C12, as stated: after a failed spawn of an external candidate the pass  *)
(* of start_server spawns no other candidate.                              *)
(***************************************************************************)
\* event k of tr is a failed spawn of a path of server_paths
ExternalSpawnFailed(tr, k) ==
    /\ IsSpawn(tr[k])
    /\ tr[k].res = "error"
    /\ tr[k].path # PathStr(resource_path)

SpawnFailureEndsPass ==
    \A p \in Procs : \A k \in DOMAIN trace[p] :
        (ExternalSpawnFailed(trace[p], k) /\ k < Len(trace[p]))
        => ~IsSpawn(trace[p][k + 1])

(***************************************************************************)
(* C12, amended: after a failed spawn of an existing candidate the pass    *)
(* goes on to the next existing candidate in the order of the list; it     *)
(* ends with the error only when the spawn of every existing candidate     *)
(* has failed.                                                             *)
(***************************************************************************)
\* the position in server_paths of the path an event names
PathIndex(str) == CHOOSE i \in 1..NumPaths : PathStr(server_paths[i]) = str

SpawnFailureTriesNext ==
    \A p \in Procs : \A k \in DOMAIN trace[p] :
        /\ (ExternalSpawnFailed(trace[p], k) /\ k < Len(trace[p])) =>
            LET later == {j \in Existing : j > PathIndex(trace[p][k].path)} IN
            IF later = {}
            THEN IsNotStarted(trace[p][k + 1])
            ELSE /\ IsSpawn(trace[p][k + 1])
                 /\ PathIndex(trace[p][k + 1].path) \in later
                 /\ \A j \in later : PathIndex(trace[p][k + 1].path) <= j
        /\ IsNotStarted(trace[p][k]) =>
            \A i \in Existing :
                \E j \in (k - Cardinality(Existing))..(k - 1) :
                    /\ j >= 1
                    /\ ExternalSpawnFailed(trace[p], j)
                    /\ PathIndex(trace[p][j].path) = i

\* the spawn of the first location failed and the third was launched
SpawnFailureWitness ==
    /\ exists = <<TRUE, FALSE, TRUE, FALSE, FALSE>>
    /\ \E p \in Procs : \E k \in DOMAIN trace[p] :
        /\ ExternalSpawnFailed(trace[p], k)
        /\ PathIndex(trace[p][k].path) = 1
        /\ k < Len(trace[p])
        /\ IsSpawn(trace[p][k + 1])
        /\ trace[p][k + 1].res = "ok"
        /\ PathIndex(trace[p][k + 1].path) = 3

(***************************************************************************)
(* C13: the external launch follows only a conclusive failure of the       *)
(* embedded one: no process of server_paths is spawned by an attempt whose *)
(* embedded child is still running.  When try_wait itself fails, the Err   *)
(* arm returns and the child handle is dropped without kill or wait, and   *)
(* run() falls back to start_server beside the running embedded child.     *)
(***************************************************************************)
NoExternalBesideLiveEmbedded ==
    \A c1 \in children : \A c2 \in children :
        ~ /\ c1.by = c2.by
          /\ c1.call = c2.call
          /\ c1.cmd = embedded_command
          /\ c1.st = Running
          /\ c2.cmd # embedded_command

(***************************************************************************)
(* C14: every supervision attempt terminates.  The startup task eventually *)
(* ends (already running, started, or failed) and a wait_for_server_ready  *)
(* call eventually returns; once ended, the startup task logs no further   *)
(* probe or spawn and spawns nothing, and a returned wait issues no        *)
(* further probe.                                                          *)
(***************************************************************************)
\* the processes task p has spawned, whatever became of them
SpawnedBy(p) == {[cmd |-> c.cmd, call |-> c.call] : c \in {d \in children : d.by = p}}

StartupStaysEnded ==
    pc[SetupTask] = "done" =>
        /\ pc'[SetupTask] = "done"
        /\ trace'[SetupTask] = trace[SetupTask]
        /\ outcome'[SetupTask] = outcome[SetupTask]
        /\ SpawnedBy(SetupTask)' = SpawnedBy(SetupTask)

WaitStaysReturned ==
    (pc[Frontend] = "idle" /\ calls'[Frontend] = calls[Frontend]) =>
        /\ pc'[Frontend] = "idle"
        /\ probes'[Frontend] = probes[Frontend]
        /\ sleeps'[Frontend] = sleeps[Frontend]
        /\ SpawnedBy(Frontend)' = SpawnedBy(Frontend)

SupervisionTerminates ==
    /\ <>[](pc[SetupTask] = "done" /\ outcome[SetupTask] # "none")
    /\ (pc[Frontend] = "w_loop") ~> (pc[Frontend] = "idle" /\ outcome[Frontend] \in {"cmd_ok", "cmd_err"})
    /\ [][StartupStaysEnded]_vars
    /\ [][WaitStaysReturned]_vars

\* the startup task has given up after both launches failed, and the wait
\* of the frontend has returned its time-out
SupervisionTerminatesWitness ==
    \/ /\ pc[SetupTask] = "done"
       /\ outcome[SetupTask] = "all_failed"
       /\ \E e \in Range(trace[SetupTask]) : e.op = "try_wait" /\ e.res = "exited"
    \/ /\ pc[Frontend] = "idle"
       /\ outcome[Frontend] = "cmd_err"
       /\ probes[Frontend] = 30

(***************************************************************************)
(* C15: wait_for_server_ready never busy-polls.  Every probe that is not   *)
(* healthy is followed by a sleep of one interval before the next probe:   *)
(* between two probes lies a sleep, and the sleeps taken are as many as    *)
(* the failed probes.                                                      *)
(***************************************************************************)
EveryFailedProbeSleeps ==
    \A p \in Procs :
        /\ probes[p] <= sleeps[p] + 1
        /\ elapsed[p] >= sleeps[p] * 1
        /\ pc[p] = "w_loop" =>
            /\ sleeps[p] = unhealthy[p]
            /\ probes[p] = sleeps[p]
            /\ wi[p] = sleeps[p]
        /\ pc[p] \in {"w_sleep", "w_sleep_err"} =>
            /\ unhealthy[p] = sleeps[p] + 1
            /\ probes[p] = unhealthy[p]
        /\ WaitReturned(p) => sleeps[p] = unhealthy[p]

\* the third probe came back healthy after two failed probes and two sleeps
FailedProbeSleepsWitness ==
    /\ WaitReturned(Frontend)
    /\ WaitResultOk(Frontend)
    /\ probes[Frontend] = 3
    /\ unhealthy[Frontend] = 2
    /\ sleeps[Frontend] = 2

(***************************************************************************)
(* C16: a script candidate (.js) is run as `node <script path>` with the   *)
(* working directory set to the directory that contains the script; any    *)
(* other candidate is executed directly by its path.  The code sets the    *)
(* working directory of every script to the literal "./server", which is   *)
(* not the directory of ../server/start.js.                                *)
(***************************************************************************)
\* the directory part of a path: the tokens before its last "/"
RECURSIVE DirTokens(_)
DirTokens(toks) ==
    IF toks = <<>> THEN <<>>
    ELSE IF toks[Len(toks)] = "/" THEN SubSeq(toks, 1, Len(toks) - 1)
    ELSE DirTokens(SubSeq(toks, 1, Len(toks) - 1))

\* the process the claim expects for the candidate at position i
ExpectedLaunch(c, i) ==
    IF server_paths[i][Len(server_paths[i])] = ".js"
    THEN /\ c.cmd.program = "node"
         /\ c.cmd.args = <<PathStr(server_paths[i])>>
         /\ c.cmd.cwd = PathStr(DirTokens(server_paths[i]))
    ELSE /\ c.cmd.program = PathStr(server_paths[i])
         /\ c.cmd.args = <<>>

ScriptRunsInItsDirectory ==
    \A p \in Procs : \A e \in Range(trace[p]) :
        (IsSpawn(e) /\ e.res = "ok" /\ e.path # PathStr(resource_path)) =>
            \E c \in children :
                /\ c.by = p
                /\ c.call = calls[p]
                /\ ExpectedLaunch(c, PathIndex(e.path))

(***************************************************************************)
(* C17: one pass of start_server spawns at most one process successfully:  *)
(* the first successful spawn ends the pass, and the pass returns Ok       *)
(* exactly when a spawn succeeded.                                         *)
(***************************************************************************)
\* event e is a successful spawn of a path of server_paths
ExternalSpawned(e) ==
    IsSpawn(e) /\ e.res = "ok" /\ e.path # PathStr(resource_path)

OneSpawnPerPass ==
    \A p \in Procs :
        /\ \A k \in DOMAIN trace[p] :
            ExternalSpawned(trace[p][k]) => k = Len(trace[p])
        /\ Cardinality({c \in children :
                           /\ c.by = p
                           /\ c.call = calls[p]
                           /\ c.cmd # embedded_command}) <= 1
        /\ (/\ pc[p] = "return"
            /\ trace[p] # <<>>
            /\ \/ ExternalSpawned(trace[p][Len(trace[p])])
               \/ IsNotStarted(trace[p][Len(trace[p])]))
           => (ret[p].ok <=> ExternalSpawned(trace[p][Len(trace[p])]))

\* the pass returns Ok after two failed spawns and one successful spawn,
\* leaving a later existing candidate untouched
OneSpawnWitness ==
    /\ exists = <<TRUE, TRUE, TRUE, TRUE, FALSE>>
    /\ pc[Frontend] = "return"
    /\ ret[Frontend].ok
    /\ Len(trace[Frontend]) = 4
    /\ ExternalSpawned(trace[Frontend][4])
    /\ Cardinality({c \in children : c.by = Frontend}) = 1

(***************************************************************************)
(* C18: the startup task enters start_server at most twice, and twice only *)
(* when the bundled resource is absent and the pass made from inside       *)
(* start_embedded_server ended with the error of line 62.                  *)
(***************************************************************************)
\* positions of the trace of the startup task where a pass of start_server begins
DiscoveryPasses == {k \in DOMAIN trace[SetupTask] : IsDiscovery(trace[SetupTask][k])}

DiscoveryAtMostTwice ==
    /\ Cardinality(DiscoveryPasses) <= 2
    /\ Cardinality(DiscoveryPasses) = 2 =>
        /\ ~resourceExists
        /\ \E k1, k2 \in DiscoveryPasses :
            /\ k1 < k2
            /\ trace[SetupTask][k1].res = "resource_absent"
            /\ trace[SetupTask][k2].res = "fallback"
            /\ IsNotStarted(trace[SetupTask][k2 - 1])
            /\ \A j \in (k1 + 1)..(k2 - 1) :
                ~(IsSpawn(trace[SetupTask][j]) /\ trace[SetupTask][j].res = "ok")

\* both passes were made: the second one found a candidate that the first one
\* could not spawn, and started it
DiscoveryTwiceWitness ==
    /\ Cardinality(DiscoveryPasses) = 2
    /\ outcome[SetupTask] = "fallback_started"

(***************************************************************************)
(* C19: wait_for_server_ready never returns Ok(false).  It returns         *)
(* Ok(true) straight after a probe that met a success status, before the   *)
(* attempts are used up, or the timeout error once all thirty attempts are *)
(* used up; an unhealthy probe never makes it return.                      *)
(***************************************************************************)
WaitNeverReturnsOkFalse ==
    \A p \in Procs :
        /\ stack[p] = <<"cmd_wait">> =>
            ret[p] \in {NoRet, Ok(<<"true">>),
                        Err(<<"Server failed to start within 30 seconds">>)}
        /\ WaitReturned(p) =>
            /\ ~(outcome[p] = "cmd_ok" /\ reported[p] = <<"false">>)
            /\ ~(pc[p] = "return" /\ ret[p] = Ok(<<"false">>))
            /\ WaitResultOk(p) =>
                /\ is_success(net[p])
                /\ wi[p] < 30
                /\ wi[p] = probes[p] - 1
            /\ WaitResultTimedOut(p) =>
                /\ wi[p] = 30
                /\ ~is_success(net[p])
            /\ ~WaitResultOk(p) => WaitResultTimedOut(p)

\* the very first probe met a success status and the call has reported true
WaitFirstProbeHealthyWitness ==
    /\ WaitReturned(Frontend)
    /\ pc[Frontend] = "idle"
    /\ outcome[Frontend] = "cmd_ok"
    /\ reported[Frontend] = <<"true">>
    /\ probes[Frontend] = 1
    /\ wi[Frontend] = 0

(***************************************************************************)
(* C20: start_server of main.rs returns an error and launches nothing when *)
(* the server directory is absent; in every case it has returned only if   *)
(* the process it launched has exited, and it returns Ok exactly when that *)
(* process exited with a success status.                                   *)
(***************************************************************************)
\* the current invocation of p is start_server of main.rs
PmInvocation(p) == trace[p] # <<>> /\ trace[p][1].op = "pm_start_server"

PmReturned(p) ==
    /\ PmInvocation(p)
    /\ \/ pc[p] = "pm_return"
       \/ pc[p] = "idle" /\ outcome[p] \in {"cmd_ok", "cmd_err"}

PmResultOk(p) ==
    \/ pc[p] = "pm_return" /\ ret[p].ok
    \/ pc[p] = "idle" /\ outcome[p] = "cmd_ok"

PmResultIs(p, r) ==
    \/ pc[p] = "pm_return" /\ ret[p] = r
    \/ /\ pc[p] = "idle"
       /\ outcome[p] = (IF r.ok THEN "cmd_ok" ELSE "cmd_err")
       /\ reported[p] = r.val

\* the processes launched by the current invocation of p
PmLaunched(p) == {c \in children : c.by = p /\ c.call = calls[p]}

PmDirFoundAbsent(p) ==
    \E e \in Range(trace[p]) : e.op = "exists" /\ e.res = "absent"

PmReturnsAfterExit ==
    \A p \in Procs : PmInvocation(p) =>
        /\ PmDirFoundAbsent(p) =>
            /\ PmLaunched(p) = {}
            /\ pc[p] # "pm_output"
            /\ PmReturned(p) => PmResultIs(p, Err(<<"Server directory not found">>))
        /\ PmReturned(p) =>
            /\ \A c \in PmLaunched(p) : c.st # Running
            /\ PmResultOk(p) <=> \E c \in PmLaunched(p) : success(c.st)
            /\ PmResultOk(p) => PmResultIs(p, Ok(<<"Server started successfully">>))

\* the first call waited for a pnpm that exited with success, and the second
\* call found the directory gone and returned the error
PmReturnsAfterExitWitness ==
    /\ calls[Frontend] = 2
    /\ PmReturned(Frontend)
    /\ pc[Frontend] = "idle"
    /\ PmDirFoundAbsent(Frontend)
    /\ outcome[Frontend] = "cmd_err"
    /\ \E c \in children :
        /\ c.by = Frontend
        /\ c.call = 1
        /\ c.cmd = pm_command(<<"/", "app", "/", "server">>)
        /\ success(c.st)

====
